---------------------------- MODULE Spec2Model ----------------------------
(***************************************************************************)
(* A model of the digital bulletin board:                                  *)
(*   - the image rotator           (src/bulletin.py, DigitalBulletinBoard) *)
(*   - the Google Drive synchronizer (src/image_fetcher.py, GoogleDriveSync)*)
(* Both work on the same image directory, modelled by dirExists and files. *)
(* RotatorSpec runs the rotator process, SyncSpec a client calling sync,   *)
(* run and should_sync, ApiSpec a single direct call of list_folder_files, *)
(* download_file or cleanup_local_files.                                   *)
(***************************************************************************)
EXTENDS Integers, Sequences, FiniteSets, TLC

\* ------------------------------------------------------------- bounds
\* The clock counts 0..MaxTime and then stops advancing.
MaxTime == 2
\* At most MaxEvents events are pending in one pygame.event.get() batch.
MaxEvents == 2
\* config['display_duration'], in clock units.
DisplayDuration == 1
\* config['google_drive']['sync_interval'], in clock units.
SyncInterval == 1

\* ------------------------------------------------- names and extensions
\* The directory entries the model knows. "album.jpg" is a sub-directory
\* whenever it is present, every other entry is a plain file.
Names == {"a.jpg", "b.PNG", "c.jpg", "notes.txt", "album.jpg"}

\* pathlib's Path.suffix of each name.
Suffix(n) ==
    CASE n = "a.jpg" -> ".jpg"
      [] n = "b.PNG" -> ".PNG"
      [] n = "b.png" -> ".png"
      [] n = "c.jpg" -> ".jpg"
      [] n = "notes.txt" -> ".txt"
      [] n = "album.jpg" -> ".jpg"

\* str.lower() on the strings of the model.
Lower(s) ==
    CASE s = ".PNG" -> ".png"
      [] s = "b.PNG" -> "b.png"
      [] OTHER -> s

\* config['supported_formats'], already lower-cased by the list comprehension.
SupportedFormats == {".jpg", ".jpeg", ".png", ".gif", ".bmp"}

\* How an entry is created in the directory: a sub-directory or a plain file.
KindOf(n) == IF n = "album.jpg" THEN "dir" ELSE "file"

Absent == [kind |-> "absent", mtime |-> 0, data |-> "none"]

\* The time of something that has not happened yet.
Never == 0 - 1

\* No call of the synchronizer is running; none has finished yet.
NoCall == [op |-> "none", force |-> FALSE, prev |-> "other"]
NoLog == [op |-> "none", force |-> FALSE, how |-> "na", ret |-> FALSE, at |-> 0,
          names |-> {}, failed |-> {}, removed |-> {}, prev |-> "other", mtime |-> 0]

VARIABLES
    \* the image directory on disk
    dirExists,              \* the directory exists
    files,                  \* name -> [kind, mtime, data]
    now,                    \* time.time()
    \* the rotator (DigitalBulletinBoard)
    image_list,             \* self.image_list
    current_image_index,    \* self.current_image_index
    last_update_time,       \* self.last_update_time
    running,                \* run()'s local variable
    pending,                \* events of the current batch not yet handled
    event,                  \* the event handle_events handled last in this batch
    frame,                  \* what the display shows: "blank" or a path
    pc,                     \* where the rotator process is
    outcome,                \* how the rotator process ended
    exit_code,              \* its exit code, -1 while it runs
    \* the synchronizer (GoogleDriveSync)
    service,                \* self.service is not None
    last_sync,              \* self.last_sync
    spc,                    \* where a running sync() call is
    call,                   \* the running call: run() or sync(), and force
    current_time,           \* sync()'s local variable
    drive_files,            \* sync()'s local variable
    di,                     \* position of the for loop in drive_files
    success_count,          \* sync()'s local variable
    results,                \* what download_file returned, call by call, in this pass
    last,                   \* the last finished call and what it returned
    listedAt,               \* start of the last pass with a non-empty listing
    okAt,                   \* start of the last pass that returned True
    \* the standalone sync utility (image_fetcher.py, main)
    mpc,                    \* where main() is
    config_file,            \* the file --config names: "missing", "malformed", "ok"
    folder_id,              \* config['google_drive']['folder_id'] is not empty
    service_account_file,   \* that setting: "empty", "absent" (no such file), "present"
    run_ret,                \* what sync.run() returned: "none" before it returns
    main_exit,              \* the exit code of the utility, -1 while it runs
    \* the runner (run.py, BulletinRunner)
    rpc,                    \* where BulletinRunner.run() is
    args,                   \* the command line: setup, update_system, force_deps
    venv_exists,            \* self.venv_dir.exists()
    deps_installed,         \* the venv's python can import the dependencies
    venv_pip,               \* self.venv_pip and self.venv_python are set
    requirements_exists,    \* requirements.txt exists
    runner_config,          \* config.json: "missing", "malformed", "enabled", "disabled"
    fetcher_proc,           \* the image_fetcher.py child: "none", "running", 0, 1
    bulletin_proc,          \* the bulletin.py child: "none", "running", 0, 1
    runner_exit             \* the exit code of run.py, -1 while it runs

vars == <<dirExists, files, now, image_list, current_image_index,
          last_update_time, running, pending, event, frame, pc, outcome,
          exit_code, service, last_sync, spc, call, current_time, drive_files,
          di, success_count, results, last, listedAt, okAt,
          mpc, config_file, folder_id, service_account_file, run_ret, main_exit,
          rpc, args, venv_exists, deps_installed, venv_pip, requirements_exists,
          runner_config, fetcher_proc, bulletin_proc, runner_exit>>

dirVars == <<dirExists, files>>
rotVars == <<image_list, current_image_index, last_update_time, running,
             pending, event, frame, pc, outcome, exit_code>>
syncVars == <<service, last_sync, spc, call, current_time, drive_files, di,
              success_count, results, last, listedAt, okAt>>
mainVars == <<mpc, config_file, folder_id, service_account_file, run_ret, main_exit>>
runVars == <<rpc, args, venv_exists, deps_installed, venv_pip, requirements_exists,
             runner_config, fetcher_proc, bulletin_proc, runner_exit>>
procVars == <<mainVars, runVars>>

\* ------------------------------------------------------------ rotator

\* pygame events: a window close, key presses, and anything else.
Events == {"QUIT", "K_ESCAPE", "K_q", "K_SPACE", "K_LEFT", "K_RIGHT", "K_r", "OTHER"}

\* All orders in which a set can be listed.
Orderings(S) ==
    {s \in [1..Cardinality(S) -> S] : \A i, j \in 1..Cardinality(S) : s[i] = s[j] => i = j}

\* The entries scan_images keeps: plain files with a supported suffix.
Matching ==
    {n \in Names : files[n].kind = "file" /\ Lower(Suffix(n)) \in SupportedFormats}

\* scan_images: the returned flag, the new image_list and whether the
\* directory exists afterwards. order is the order iterdir (and the optional
\* shuffle) yields; mkdirOk is whether a missing directory can be created.
ScanImages(mkdirOk, order) ==
    IF ~dirExists /\ ~mkdirOk
    THEN [ok |-> FALSE, list |-> image_list, exists |-> FALSE]
    ELSE IF order = <<>>
         THEN [ok |-> FALSE, list |-> <<>>, exists |-> TRUE]
         ELSE [ok |-> TRUE, list |-> order, exists |-> TRUE]

\* display_current_image followed by display_image: the visible frame after
\* showing entry idx of list. loadOk: load_and_scale_image returned a surface.
DisplayCurrentImage(list, idx, loadOk) ==
    IF list = <<>> THEN frame
    ELSE IF loadOk THEN list[idx + 1] ELSE frame

\* The synchronizer object as __init__ leaves it, but for self.service.
SyncObjectInit ==
    /\ last_sync = 0
    /\ spc = "idle"
    /\ call = NoCall
    /\ current_time = 0
    /\ drive_files = <<>>
    /\ di = 0
    /\ success_count = 0
    /\ results = <<>>
    /\ last = NoLog
    /\ listedAt = Never
    /\ okAt = Never

\* The sync utility is not run.
MainOff ==
    /\ mpc = "off"
    /\ config_file = "ok"
    /\ folder_id = TRUE
    /\ service_account_file = "present"
    /\ run_ret = "none"
    /\ main_exit = -1

\* The runner is not run.
RunnerOff ==
    /\ rpc = "off"
    /\ args = [setup |-> FALSE, update_system |-> FALSE, force_deps |-> FALSE]
    /\ venv_exists = TRUE
    /\ deps_installed = TRUE
    /\ venv_pip = FALSE
    /\ requirements_exists = TRUE
    /\ runner_config = "enabled"
    /\ fetcher_proc = "none"
    /\ bulletin_proc = "none"
    /\ runner_exit = -1

\* The rotator object as __init__ leaves it, before run() is called.
RotatorObjectInit ==
    /\ image_list = <<>>
    /\ current_image_index = 0
    /\ last_update_time = now
    /\ running = TRUE
    /\ pending = 0
    /\ event = "none"
    /\ frame = "blank"
    /\ pc = "start"
    /\ outcome = "none"
    /\ exit_code = -1

RotatorInit ==
    /\ dirExists \in BOOLEAN
    /\ files \in [Names -> {Absent} \cup {[kind |-> "file", mtime |-> 0, data |-> "local"],
                                          [kind |-> "dir", mtime |-> 0, data |-> "none"]}]
    /\ \A n \in Names : files[n] # Absent => dirExists /\ files[n].kind = KindOf(n)
    /\ now = 0
    /\ RotatorObjectInit
    /\ service = FALSE
    /\ SyncObjectInit
    /\ MainOff
    /\ RunnerOff

\* run(), up to the loop: the initial scan and the first image.
RunStart ==
    /\ pc = "start"
    /\ \E mkdirOk \in BOOLEAN, order \in Orderings(Matching), loadOk \in BOOLEAN :
        LET r == ScanImages(mkdirOk, order) IN
        /\ image_list' = r.list
        /\ dirExists' = r.exists
        /\ IF r.ok
           THEN /\ frame' = DisplayCurrentImage(r.list, current_image_index, loadOk)
                /\ pc' = "poll"
                /\ UNCHANGED <<outcome, exit_code>>
           ELSE /\ pc' = "exited"
                /\ outcome' = "no_images"
                /\ exit_code' = 0
                /\ UNCHANGED frame
    /\ UNCHANGED <<files, now, current_image_index, last_update_time, running, pending,
                   event, syncVars, procVars>>

\* pygame.event.get(): a batch of pending events is taken off the queue.
Poll ==
    /\ pc = "poll"
    /\ \E n \in 0..MaxEvents : pending' = n
    /\ event' = "none"
    /\ pc' = "events"
    /\ UNCHANGED <<dirVars, now, image_list, current_image_index, last_update_time,
                   running, frame, outcome, exit_code, syncVars, procVars>>

\* A step back that stops at the first entry instead of wrapping.
PreviousIndex_Clamped(i, n) == IF i = 0 THEN 0 ELSE i - 1

\* The index the K_LEFT branch computes, Python's % giving 0..n-1.
PreviousIndex(i, n) == (i - 1) % n

\* The index advance_image computes.
NextIndex(i, n) == (i + 1) % n

\* advance_image
AdvanceImage(loadOk) ==
    IF image_list = <<>>
    THEN UNCHANGED <<current_image_index, frame, last_update_time>>
    ELSE LET idx == NextIndex(current_image_index, Len(image_list)) IN
         /\ current_image_index' = idx
         /\ frame' = DisplayCurrentImage(image_list, idx, loadOk)
         /\ last_update_time' = now

\* The K_LEFT branch of handle_events, on a non-empty list.
PreviousImage(loadOk) ==
    LET idx == PreviousIndex(current_image_index, Len(image_list)) IN
    /\ current_image_index' = idx
    /\ frame' = DisplayCurrentImage(image_list, idx, loadOk)
    /\ UNCHANGED last_update_time

\* The process ends: main()'s finally clause exits with code 0.
Exit(how) ==
    /\ pc' = "exited"
    /\ outcome' = how
    /\ exit_code' = 0

\* One iteration of the for loop of handle_events on an event e of those the
\* environment sends, or its return True when the batch is used up.
HandleEventOf(sent) ==
    /\ pc = "events"
    /\ IF pending = 0
       THEN /\ running' = TRUE
            /\ event' = "none"
            /\ pc' = "timer"
            /\ UNCHANGED <<dirVars, image_list, current_image_index, last_update_time,
                           pending, frame, outcome, exit_code>>
       ELSE \E e \in sent :
            /\ event' = e
            /\ CASE e \in {"QUIT", "K_ESCAPE", "K_q"} ->
                    /\ running' = FALSE
                    /\ pending' = 0
                    /\ pc' = "timer"
                    /\ UNCHANGED <<dirVars, image_list, current_image_index,
                                   last_update_time, frame, outcome, exit_code>>
              [] e \in {"K_SPACE", "K_RIGHT"} ->
                    /\ \E loadOk \in BOOLEAN : AdvanceImage(loadOk)
                    /\ pending' = pending - 1
                    /\ UNCHANGED <<dirVars, image_list, running, pc, outcome, exit_code>>
              [] e = "K_LEFT" ->
                    IF Len(image_list) = 0
                    THEN \* ZeroDivisionError leaves run(); main() catches it
                         /\ Exit("error")
                         /\ pending' = 0
                         /\ UNCHANGED <<dirVars, image_list, current_image_index,
                                        last_update_time, running, frame>>
                    ELSE /\ \E loadOk \in BOOLEAN : PreviousImage(loadOk)
                         /\ pending' = pending - 1
                         /\ UNCHANGED <<dirVars, image_list, running, pc, outcome, exit_code>>
              [] e = "K_r" ->
                    /\ \E mkdirOk \in BOOLEAN, order \in Orderings(Matching) :
                         LET r == ScanImages(mkdirOk, order) IN
                         /\ image_list' = r.list
                         /\ dirExists' = r.exists
                    /\ pending' = pending - 1
                    /\ UNCHANGED <<files, current_image_index, last_update_time, running,
                                   frame, pc, outcome, exit_code>>
              [] OTHER ->
                    /\ pending' = pending - 1
                    /\ UNCHANGED <<dirVars, image_list, current_image_index,
                                   last_update_time, running, frame, pc, outcome, exit_code>>
    /\ UNCHANGED <<now, syncVars, procVars>>

HandleEvent == HandleEventOf(Events)

\* A timer check with the two times exchanged.
TimerDue_Swapped == last_update_time - now >= DisplayDuration

\* run()'s test that it is time for the next image.
TimerDue == now - last_update_time >= DisplayDuration

\* The rest of the loop body: the timer check, clock.tick and the loop test.
TimerCheck ==
    /\ pc = "timer"
    /\ \E loadOk \in BOOLEAN :
        IF TimerDue
        THEN AdvanceImage(loadOk)
        ELSE UNCHANGED <<current_image_index, frame, last_update_time>>
    /\ IF running
       THEN pc' = "poll" /\ UNCHANGED <<outcome, exit_code>>
       ELSE Exit("quit")
    /\ event' = "none"
    /\ UNCHANGED <<dirVars, now, image_list, running, pending, syncVars, procVars>>

\* ------------------------------------------------------- environment

\* Time passes.
Tick(limit) ==
    /\ now < limit
    /\ now' = now + 1
    /\ UNCHANGED <<dirVars, rotVars, syncVars, procVars>>

\* Somebody else creates or removes an entry of the image directory.
DirEntryChange ==
    /\ pc \in {"poll", "events", "timer"}
    /\ dirExists
    /\ \E n \in Names :
        files' = [files EXCEPT ![n] =
                    IF files[n] = Absent
                    THEN [kind |-> KindOf(n), mtime |-> 0,
                          data |-> IF KindOf(n) = "dir" THEN "none" ELSE "local"]
                    ELSE Absent]
    /\ UNCHANGED <<dirExists, now, rotVars, syncVars, procVars>>

\* Somebody else removes the image directory with all it holds.
DirRemove ==
    /\ pc \in {"poll", "events", "timer"}
    /\ dirExists
    /\ dirExists' = FALSE
    /\ files' = [n \in Names |-> Absent]
    /\ UNCHANGED <<now, rotVars, syncVars, procVars>>

RotatorNext ==
    \/ RunStart
    \/ Poll
    \/ HandleEvent
    \/ TimerCheck
    \/ (pc # "exited" /\ Tick(MaxTime))
    \/ DirEntryChange
    \/ DirRemove

RotatorSpec == RotatorInit /\ [][RotatorNext]_vars

\* ------------------------------------------- the rotator, running forever

\* Time passes without end. The loop only compares now - last_update_time
\* with the hold duration, so once the clock shows MaxTime the origin of time
\* is moved on by one unit instead of the clock.
TickForever ==
    /\ IF now < MaxTime
       THEN now' = now + 1 /\ UNCHANGED last_update_time
       ELSE /\ UNCHANGED now
            /\ last_update_time' = IF last_update_time > 0 THEN last_update_time - 1 ELSE 0
    /\ UNCHANGED <<dirVars, image_list, current_image_index, running, pending, event,
                   frame, pc, outcome, exit_code, syncVars, procVars>>

\* The events of a user who never quits.
NonQuitEvents == Events \ {"QUIT", "K_ESCAPE", "K_q"}

\* The rotator is started on a directory of three images and a text file
\* that nobody changes.
LiveInit ==
    /\ dirExists = TRUE
    /\ files = [n \in Names |-> IF n = "album.jpg" THEN Absent
                                 ELSE [kind |-> "file", mtime |-> 0, data |-> "local"]]
    /\ now = 0
    /\ RotatorObjectInit
    /\ service = FALSE
    /\ SyncObjectInit
    /\ MainOff
    /\ RunnerOff

LiveNext ==
    \/ RunStart
    \/ Poll
    \/ HandleEventOf(NonQuitEvents)
    \/ TimerCheck
    \/ TickForever

\* The process keeps running and time keeps passing.
LiveSpec ==
    /\ LiveInit
    /\ [][LiveNext]_vars
    /\ WF_vars(RunStart)
    /\ WF_vars(Poll)
    /\ WF_vars(HandleEventOf(NonQuitEvents))
    /\ WF_vars(TimerCheck)
    /\ WF_vars(TickForever)

\* -------------------------------------------------------- synchronizer

\* Construction finishes at StartTime, at least one sync interval after the
\* epoch (time.time() counts from 1970; last_sync starts as 0).
StartTime == SyncInterval

\* The latest time the clock reaches in the synchronizer's runs: late enough
\* for a call one whole interval after a call made at StartTime.
SyncMaxTime == StartTime + SyncInterval

\* The files the remote folder can hold, and their modification times.
RemoteNames == {"a.jpg", "b.PNG", "notes.txt"}
RemoteTimes == {StartTime - 1, StartTime + 1}
Records == [name : RemoteNames, modifiedTime : RemoteTimes]

\* A state of the remote folder: the modification time of each file in it,
\* NotThere for a file that is not in it.
NotThere == 0 - 1
Folders == [RemoteNames -> RemoteTimes \cup {NotThere}]

\* The files of a folder as files().list() reports them.
FilesOf(folder) ==
    LET there == SelectSeq(<<"a.jpg", "notes.txt", "b.PNG">>,
                           LAMBDA n : folder[n] # NotThere)
    IN  [k \in 1..Len(there) |-> [name |-> there[k], modifiedTime |-> folder[there[k]]]]

\* What files().list().execute() can answer: an exception, or the files.
ListResponses ==
    {[ok |-> FALSE, files |-> <<>>]}
        \cup {[ok |-> TRUE, files |-> FilesOf(folder)] : folder \in Folders}

\* Offsets of local time from UTC, in clock units: west of, at and east of
\* Greenwich.
UtcOffsets == {0 - 1, 0, 1}

\* str.endswith on the strings of the model: a format is ".xyz", and every
\* name has one dot, so the name ends with it iff its suffix is the format.
EndsWith(s, fmt) == Suffix(s) = fmt

\* is_supported_image
IsSupportedImage(filename) ==
    \E fmt \in SupportedFormats : EndsWith(Lower(filename), fmt)

\* list_folder_files
ListFolderFiles(resp) ==
    IF ~service THEN <<>>
    ELSE IF ~resp.ok THEN <<>>
    ELSE SelectSeq(resp.files, LAMBDA f : IsSupportedImage(f.name))

\* time.mktime(time.strptime(modifiedTime, ...)): the UTC fields of the remote
\* time are read as local time.
DriveMTime(file_info, utcOffset) == file_info.modifiedTime - utcOffset

\* How the download of one file can go once it is attempted.
DownloadOutcomes == {"ok", "fetch_error", "open_error", "write_error"}

\* download_file: the returned flag, the local file afterwards, and whether
\* the remote content was fetched.
DownloadFile(file_info, out, utcOffset) ==
    LET f == files[file_info.name] IN
    IF f # Absent /\ f.mtime >= DriveMTime(file_info, utcOffset)
    THEN [ret |-> TRUE, file |-> f, fetched |-> FALSE]
    ELSE IF ~service \/ out = "fetch_error"
    THEN [ret |-> FALSE, file |-> f, fetched |-> FALSE]
    ELSE IF out = "open_error"
    THEN [ret |-> FALSE, file |-> f, fetched |-> TRUE]
    ELSE IF out = "write_error"
    THEN [ret |-> FALSE, file |-> [kind |-> "file", mtime |-> now, data |-> "partial"],
          fetched |-> TRUE]
    ELSE [ret |-> TRUE, file |-> [kind |-> "file", mtime |-> now, data |-> "remote"],
          fetched |-> TRUE]

\* The order in which iterdir yields the entries of the directory.
IterDir ==
    SelectSeq(<<"notes.txt", "c.jpg", "album.jpg", "b.PNG", "a.jpg">>,
              LAMBDA n : files[n] # Absent)

\* The names of a listing.
NamesOf(listing) == {listing[k].name : k \in 1..Len(listing)}

\* A clean-up loop that a failing unlink ends.
RECURSIVE CleanupLoop_StopsAtFailure(_, _, _, _, _)
CleanupLoop_StopsAtFailure(order, k, fs, drive_filenames, failed) ==
    IF k > Len(order) THEN fs
    ELSE LET n == order[k] IN
         IF fs[n].kind = "file" /\ IsSupportedImage(n) /\ n \notin drive_filenames
         THEN IF n \in failed
              THEN fs
              ELSE CleanupLoop_StopsAtFailure(order, k + 1, [fs EXCEPT ![n] = Absent],
                                              drive_filenames, failed)
         ELSE CleanupLoop_StopsAtFailure(order, k + 1, fs, drive_filenames, failed)

\* The for loop of cleanup_local_files over the entries order[k..], on the
\* directory fs. failed: the files whose unlink raises.
RECURSIVE CleanupLoop(_, _, _, _, _)
CleanupLoop(order, k, fs, drive_filenames, failed) ==
    IF k > Len(order) THEN fs
    ELSE LET n == order[k] IN
         IF fs[n].kind = "file" /\ IsSupportedImage(n) /\ n \notin drive_filenames
         THEN IF n \in failed
              THEN CleanupLoop(order, k + 1, fs, drive_filenames, failed)
              ELSE CleanupLoop(order, k + 1, [fs EXCEPT ![n] = Absent],
                               drive_filenames, failed)
         ELSE CleanupLoop(order, k + 1, fs, drive_filenames, failed)

\* cleanup_local_files: the directory afterwards.
CleanupLocalFiles(listing, failed) ==
    CleanupLoop(IterDir, 1, files, NamesOf(listing), failed)

\* The local files cleanup_local_files calls unlink on, each of which can fail.
UnlinkAttempts(listing) ==
    {n \in Names : /\ files[n].kind = "file"
                   /\ IsSupportedImage(n)
                   /\ n \notin NamesOf(listing)}

\* For a sync() call that starts now: how the call before it went, if that
\* was a sync(force=False) call started less than an interval ago.
Prev ==
    IF last.op = "sync" /\ ~last.force /\ now - last.at < SyncInterval
    THEN last.how
    ELSE "other"

Log(op, force, how, ret, at, prev) ==
    [op |-> op, force |-> force, how |-> how, ret |-> ret, at |-> at,
     names |-> {}, failed |-> {}, removed |-> {}, prev |-> prev, mtime |-> 0]

\* A rate limit that also skips a call made exactly one interval later.
RateLimited_Inclusive(force) == ~force /\ (now - last_sync) <= SyncInterval

\* sync()'s rate limit: the pass is skipped.
RateLimited(force) == ~force /\ (now - last_sync) < SyncInterval

\* An empty listing that is cleaned up against before sync() returns.
FilesAfterEmptyListing_Pruned == CleanupLocalFiles(<<>>, {})

\* The directory after sync() has found the listing empty and returned.
FilesAfterEmptyListing == files

\* A pass that forgets to record its time.
NewLastSync_Forgotten == last_sync

\* The value sync() gives last_sync at the end of a pass.
NewLastSync == current_time

\* A pass that reports success only when every download succeeded.
PassResult_AllSucceeded == success_count = Len(drive_files)

\* What sync() returns at the end of a pass.
PassResult == success_count > 0

\* The local files a run of the synchronizer starts with.
InitialFiles(T) ==
    {fs \in [Names -> {Absent} \cup [kind : {"file"}, mtime : T, data : {"local"}]
                                \cup {[kind |-> "dir", mtime |-> StartTime, data |-> "none"]}] :
        \A n \in Names : fs[n] # Absent => fs[n].kind = KindOf(n)}

SyncInit ==
    /\ dirExists = TRUE
    /\ files \in InitialFiles({StartTime})
    /\ files["c.jpg"] = Absent /\ files["album.jpg"] = Absent
    /\ now = StartTime
    /\ RotatorObjectInit
    /\ service \in BOOLEAN
    /\ SyncObjectInit
    /\ MainOff
    /\ RunnerOff

\* sync(force), or run() as far as its call of sync(force=True): the checks
\* and the listing. lookupOk: run()'s files().get() of the folder succeeds.
SyncBegin(op, force) ==
    /\ spc = "idle"
    /\ \E lookupOk \in (IF service /\ op = "run" THEN BOOLEAN ELSE {TRUE}) :
       \E resp \in (IF service /\ lookupOk /\ ~RateLimited(force)
                    THEN ListResponses
                    ELSE {[ok |-> FALSE, files |-> <<>>]}) :
        LET listing == ListFolderFiles(resp) IN
        IF ~service
        THEN /\ last' = Log(op, force, "unauth", FALSE, now, Prev)
             /\ UNCHANGED files
             /\ UNCHANGED <<spc, call, current_time, drive_files, di, success_count, results>>
        ELSE IF op = "run" /\ ~lookupOk
        THEN /\ last' = Log(op, force, "lookup_error", FALSE, now, Prev)
             /\ UNCHANGED files
             /\ UNCHANGED <<spc, call, current_time, drive_files, di, success_count, results>>
        ELSE IF RateLimited(force)
        THEN /\ last' = Log(op, force, "skipped", TRUE, now, Prev)
             /\ UNCHANGED files
             /\ UNCHANGED <<spc, call, current_time, drive_files, di, success_count, results>>
        ELSE IF listing = <<>>
        THEN /\ last' = Log(op, force, IF resp.ok THEN "empty" ELSE "list_error",
                            FALSE, now, Prev)
             /\ files' = FilesAfterEmptyListing
             /\ UNCHANGED <<spc, call, current_time, drive_files, di, success_count, results>>
        ELSE /\ spc' = "download"
             /\ call' = [op |-> op, force |-> force, prev |-> Prev]
             /\ UNCHANGED files
             /\ current_time' = now
             /\ drive_files' = listing
             /\ di' = 1
             /\ success_count' = 0
             /\ results' = <<>>
             /\ last' = NoLog
    /\ UNCHANGED <<dirExists, now, rotVars, procVars, service, last_sync, listedAt, okAt>>

\* One iteration of sync()'s for loop over drive_files.
SyncDownload ==
    /\ spc = "download"
    /\ \E out \in DownloadOutcomes :
       \E utcOffset \in (IF files[drive_files[di].name] = Absent THEN {0} ELSE UtcOffsets) :
        LET r == DownloadFile(drive_files[di], out, utcOffset) IN
        /\ files' = [files EXCEPT ![drive_files[di].name] = r.file]
        /\ success_count' = IF r.ret THEN success_count + 1 ELSE success_count
        /\ results' = Append(results, r.ret)
    /\ di' = di + 1
    /\ spc' = IF di = Len(drive_files) THEN "cleanup" ELSE "download"
    /\ UNCHANGED <<dirExists, now, rotVars, procVars, service, last_sync, call, current_time,
                   drive_files, last, listedAt, okAt>>

\* The end of sync(): the clean-up, the time stamp and the result.
SyncEnd ==
    /\ spc = "cleanup"
    /\ \E failed \in SUBSET UnlinkAttempts(drive_files) :
        files' = CleanupLocalFiles(drive_files, failed)
    /\ last' = Log(call.op, call.force, "pass", PassResult, current_time,
                   call.prev)
    /\ last_sync' = NewLastSync
    /\ listedAt' = current_time
    /\ okAt' = IF PassResult THEN current_time ELSE okAt
    /\ spc' = "idle"
    /\ call' = NoCall
    /\ current_time' = 0
    /\ drive_files' = <<>>
    /\ di' = 0
    /\ success_count' = 0
    /\ results' = <<>>
    /\ UNCHANGED <<dirExists, now, rotVars, procVars, service>>

\* A call of should_sync.
CallShouldSync ==
    /\ spc = "idle"
    /\ last' = Log("should_sync", FALSE, "na",
                   service /\ (now - last_sync) >= SyncInterval, now, "other")
    /\ UNCHANGED <<dirVars, now, rotVars, procVars, service, last_sync, spc, call, current_time,
                   drive_files, di, success_count, results, listedAt, okAt>>

SyncNext ==
    \/ \E force \in BOOLEAN : SyncBegin("sync", force)
    \/ SyncBegin("run", TRUE)
    \/ SyncDownload
    \/ SyncEnd
    \/ CallShouldSync
    \/ Tick(SyncMaxTime)

SyncSpec == SyncInit /\ [][SyncNext]_vars

\* ------------------------------------- single calls of the other methods

\* A synchronizer object with any local directory, on which one method is
\* called directly.
ApiInit ==
    /\ dirExists = TRUE
    /\ files \in InitialFiles({StartTime - 1, StartTime, StartTime + 1})
    /\ now \in StartTime..SyncMaxTime
    /\ RotatorObjectInit
    /\ service \in BOOLEAN
    /\ SyncObjectInit
    /\ MainOff
    /\ RunnerOff

\* A call of list_folder_files.
CallListFolderFiles ==
    /\ spc = "idle" /\ last = NoLog
    /\ \E resp \in ListResponses :
        LET listing == ListFolderFiles(resp) IN
        last' = [Log("list", FALSE, "na", listing # <<>>, now, "other")
                    EXCEPT !.names = NamesOf(listing)]
    /\ UNCHANGED <<dirVars, now, rotVars, procVars, service, last_sync, spc, call, current_time,
                   drive_files, di, success_count, results, listedAt, okAt>>

\* A call of download_file.
CallDownloadFile ==
    /\ spc = "idle" /\ last = NoLog
    /\ \E file_info \in Records, out \in DownloadOutcomes, utcOffset \in UtcOffsets :
        LET r == DownloadFile(file_info, out, utcOffset) IN
        /\ files' = [files EXCEPT ![file_info.name] = r.file]
        /\ last' = [Log("download", FALSE, IF r.fetched THEN "fetched" ELSE "not_fetched",
                        r.ret, now, "other")
                      EXCEPT !.names = {file_info.name},
                             !.mtime = file_info.modifiedTime]
    /\ UNCHANGED <<dirExists, now, rotVars, procVars, service, last_sync, spc, call, current_time,
                   drive_files, di, success_count, results, listedAt, okAt>>

\* A call of cleanup_local_files.
CallCleanupLocalFiles ==
    /\ spc = "idle" /\ last = NoLog
    /\ \E folder \in Folders :
       \E failed \in SUBSET UnlinkAttempts(FilesOf(folder)) :
        /\ files' = CleanupLocalFiles(FilesOf(folder), failed)
        /\ last' = [Log("cleanup", FALSE, "na", FALSE, now, "other")
                      EXCEPT !.names = NamesOf(FilesOf(folder)), !.failed = failed,
                             !.removed = {n \in Names : files[n] # Absent /\ files'[n] = Absent}]
    /\ UNCHANGED <<dirExists, now, rotVars, procVars, service, last_sync, spc, call, current_time,
                   drive_files, di, success_count, results, listedAt, okAt>>

ApiNext ==
    \/ CallListFolderFiles
    \/ CallDownloadFile
    \/ CallCleanupLocalFiles

ApiSpec == ApiInit /\ [][ApiNext]_vars

\* ------------------------------------------- the standalone sync utility

\* A utility that exits 0 whatever the sync run returned.
ExitCode_AlwaysZero(success) == 0

\* The exit code main() chooses from what sync.run() returned.
ExitCode(success) == IF success THEN 0 ELSE 1

\* The utility is started with some configuration, on some local directory.
MainInit ==
    /\ dirExists = TRUE
    /\ files \in InitialFiles({StartTime})
    /\ files["c.jpg"] = Absent /\ files["album.jpg"] = Absent
    /\ now = StartTime
    /\ RotatorObjectInit
    /\ service = FALSE
    /\ SyncObjectInit
    /\ mpc = "load_config"
    /\ config_file \in {"missing", "malformed", "ok"}
    /\ folder_id \in BOOLEAN
    /\ service_account_file \in {"empty", "absent", "present"}
    /\ run_ret = "none"
    /\ main_exit = -1
    /\ RunnerOff

\* sys.exit(code)
MainExitWith(code) ==
    /\ mpc' = "exited"
    /\ main_exit' = code

\* load_config and the test of its result.
MainLoadConfig ==
    /\ mpc = "load_config"
    /\ IF config_file = "ok"
       THEN mpc' = "validate" /\ UNCHANGED main_exit
       ELSE MainExitWith(1)
    /\ UNCHANGED <<dirVars, now, rotVars, syncVars, runVars, config_file, folder_id,
                   service_account_file, run_ret>>

\* The three tests of the required settings.
MainValidate ==
    /\ mpc = "validate"
    /\ IF ~folder_id \/ service_account_file # "present"
       THEN MainExitWith(1)
       ELSE mpc' = "construct" /\ UNCHANGED main_exit
    /\ UNCHANGED <<dirVars, now, rotVars, syncVars, runVars, config_file, folder_id,
                   service_account_file, run_ret>>

\* GoogleDriveSync(config): mkdir, which may raise, and _authenticate, which
\* may return None.
MainConstruct ==
    /\ mpc = "construct"
    /\ \E mkdirOk \in BOOLEAN, authOk \in BOOLEAN :
        IF mkdirOk
        THEN /\ service' = authOk
             /\ mpc' = "run"
             /\ UNCHANGED main_exit
        ELSE /\ MainExitWith(1)
             /\ UNCHANGED service
    /\ UNCHANGED <<dirVars, now, rotVars, last_sync, spc, call, current_time, drive_files,
                   di, success_count, results, last, listedAt, okAt, runVars,
                   config_file, folder_id, service_account_file, run_ret>>

\* sync.run() returns: what sync() returned, or False when the report of
\* the local files raises after a successful sync.
MainRunReturns ==
    /\ mpc = "run" /\ spc = "idle" /\ last.op = "run"
    /\ \E reportOk \in (IF last.ret THEN BOOLEAN ELSE {TRUE}) :
        run_ret' = IF last.ret /\ reportOk THEN "true" ELSE "false"
    /\ mpc' = "returned"
    /\ UNCHANGED <<dirVars, now, rotVars, syncVars, runVars, config_file, folder_id,
                   service_account_file, main_exit>>

\* main()'s if success: sys.exit(0) else: sys.exit(1)
MainExit ==
    /\ mpc = "returned"
    /\ MainExitWith(ExitCode(run_ret = "true"))
    /\ UNCHANGED <<dirVars, now, rotVars, syncVars, runVars, config_file, folder_id,
                   service_account_file, run_ret>>

\* KeyboardInterrupt while the synchronizer is constructed or runs.
MainInterrupt ==
    /\ mpc \in {"construct", "run"}
    /\ MainExitWith(1)
    /\ UNCHANGED <<dirVars, now, rotVars, syncVars, runVars, config_file, folder_id,
                   service_account_file, run_ret>>

MainNext ==
    \/ MainLoadConfig
    \/ MainValidate
    \/ MainConstruct
    \/ (mpc = "run" /\ last = NoLog /\ SyncBegin("run", TRUE))
    \/ (mpc = "run" /\ SyncDownload)
    \/ (mpc = "run" /\ SyncEnd)
    \/ MainRunReturns
    \/ MainExit
    \/ MainInterrupt

MainSpec == MainInit /\ [][MainNext]_vars

\* ------------------------------------------------------------ the runner

\* The command lines of run.py.
ArgSets == [setup : BOOLEAN, update_system : BOOLEAN, force_deps : BOOLEAN]

\* How a child process can end.
ExitStates == {"exit0", "exit1"}

RunnerInit ==
    /\ dirExists = TRUE
    /\ files = [n \in Names |-> Absent]
    /\ now = 0
    /\ RotatorObjectInit
    /\ service = FALSE
    /\ SyncObjectInit
    /\ MainOff
    /\ rpc = "main"
    /\ args \in ArgSets
    /\ venv_exists \in BOOLEAN
    /\ deps_installed \in (IF venv_exists THEN BOOLEAN ELSE {FALSE})
    /\ venv_pip = FALSE
    /\ requirements_exists \in BOOLEAN
    /\ runner_config \in {"missing", "malformed", "enabled", "disabled"}
    /\ fetcher_proc = "none"
    /\ bulletin_proc = "none"
    /\ runner_exit = -1

\* The runner ends with an exit code.
RunnerExitWith(code) ==
    /\ rpc' = "exited"
    /\ runner_exit' = code

\* The runner goes on to the step named.
RunnerGoto(step) ==
    /\ rpc' = step
    /\ UNCHANGED runner_exit

\* A wait that does not wait for the child to end.
ChildEnded_NoWait(proc) == TRUE

\* subprocess.run returns only when the child process has ended.
ChildEnded(proc) == proc \in ExitStates

\* main(): the argument combinations.
RunnerMain ==
    /\ rpc = "main"
    /\ IF (args.update_system \/ args.force_deps) /\ ~args.setup
       THEN RunnerExitWith(1)
       ELSE RunnerGoto("check")
    /\ UNCHANGED <<dirVars, now, rotVars, syncVars, mainVars, args, venv_exists,
                   deps_installed, venv_pip, requirements_exists, runner_config,
                   fetcher_proc, bulletin_proc>>

\* run(): the first-run and the dependency tests.
RunnerCheck ==
    /\ rpc = "check"
    /\ IF ~args.setup /\ (~venv_exists \/ ~deps_installed)
       THEN RunnerExitWith(1)
       ELSE RunnerGoto(IF ~args.setup THEN "venv"
                       ELSE IF args.update_system THEN "update_system"
                       ELSE "system_deps")
    /\ UNCHANGED <<dirVars, now, rotVars, syncVars, mainVars, args, venv_exists,
                   deps_installed, venv_pip, requirements_exists, runner_config,
                   fetcher_proc, bulletin_proc>>

\* update_system, which raises when apt fails.
RunnerUpdateSystem ==
    /\ rpc = "update_system"
    /\ \E ok \in BOOLEAN :
        IF ok THEN RunnerGoto("system_deps") ELSE RunnerExitWith(1)
    /\ UNCHANGED <<dirVars, now, rotVars, syncVars, mainVars, args, venv_exists,
                   deps_installed, venv_pip, requirements_exists, runner_config,
                   fetcher_proc, bulletin_proc>>

\* install_system_dependencies, which raises when apt fails.
RunnerSystemDeps ==
    /\ rpc = "system_deps"
    /\ \E ok \in BOOLEAN :
        IF ok THEN RunnerGoto("python_deps") ELSE RunnerExitWith(1)
    /\ UNCHANGED <<dirVars, now, rotVars, syncVars, mainVars, args, venv_exists,
                   deps_installed, venv_pip, requirements_exists, runner_config,
                   fetcher_proc, bulletin_proc>>

\* install_python_dependencies: FileNotFoundError without requirements.txt,
\* AttributeError when self.venv_pip has not been set, CalledProcessError
\* when pip fails; run() turns each into exit code 1.
RunnerPythonDeps ==
    /\ rpc = "python_deps"
    /\ \E pipOk \in BOOLEAN :
        IF requirements_exists /\ venv_pip /\ pipOk
        THEN /\ deps_installed' = TRUE
             /\ RunnerGoto("venv")
        ELSE /\ UNCHANGED deps_installed
             /\ RunnerExitWith(1)
    /\ UNCHANGED <<dirVars, now, rotVars, syncVars, mainVars, args, venv_exists, venv_pip,
                   requirements_exists, runner_config, fetcher_proc, bulletin_proc>>

\* setup_virtual_environment: creates the venv if there is none and sets
\* self.venv_python and self.venv_pip.
RunnerVenv ==
    /\ rpc = "venv"
    /\ \E createOk \in (IF venv_exists THEN {TRUE} ELSE BOOLEAN) :
        IF createOk
        THEN /\ venv_exists' = TRUE
             /\ venv_pip' = TRUE
             /\ RunnerGoto("config")
        ELSE /\ UNCHANGED <<venv_exists, venv_pip>>
             /\ RunnerExitWith(1)
    /\ UNCHANGED <<dirVars, now, rotVars, syncVars, mainVars, args, deps_installed,
                   requirements_exists, runner_config, fetcher_proc, bulletin_proc>>

\* check_configuration
RunnerConfig ==
    /\ rpc = "config"
    /\ IF runner_config \in {"missing", "malformed"}
       THEN RunnerExitWith(1)
       ELSE RunnerGoto("fetcher")
    /\ UNCHANGED <<dirVars, now, rotVars, syncVars, mainVars, args, venv_exists,
                   deps_installed, venv_pip, requirements_exists, runner_config,
                   fetcher_proc, bulletin_proc>>

\* run_image_fetcher up to subprocess.run: the child is started when Google
\* Drive is enabled; when it cannot be started the exception is caught.
RunnerStartFetcher ==
    /\ rpc = "fetcher"
    /\ \E spawnOk \in (IF runner_config = "enabled" THEN BOOLEAN ELSE {FALSE}) :
        IF spawnOk
        THEN /\ fetcher_proc' = "running"
             /\ RunnerGoto("wait_fetcher")
        ELSE /\ UNCHANGED fetcher_proc
             /\ RunnerGoto("bulletin")
    /\ UNCHANGED <<dirVars, now, rotVars, syncVars, mainVars, args, venv_exists,
                   deps_installed, venv_pip, requirements_exists, runner_config,
                   bulletin_proc>>

\* The image_fetcher.py child ends, with success or failure.
FetcherEnds ==
    /\ fetcher_proc = "running"
    /\ fetcher_proc' \in ExitStates
    /\ UNCHANGED <<dirVars, now, rotVars, syncVars, mainVars, rpc, args, venv_exists,
                   deps_installed, venv_pip, requirements_exists, runner_config,
                   bulletin_proc, runner_exit>>

\* subprocess.run returns in run_image_fetcher (check=False): success is
\* reported or a warning printed, and the runner goes on.
RunnerFetcherDone ==
    /\ rpc = "wait_fetcher"
    /\ ChildEnded(fetcher_proc)
    /\ RunnerGoto("bulletin")
    /\ UNCHANGED <<dirVars, now, rotVars, syncVars, mainVars, args, venv_exists,
                   deps_installed, venv_pip, requirements_exists, runner_config,
                   fetcher_proc, bulletin_proc>>

\* run_bulletin_board up to subprocess.run: the child is started, or the
\* exception of a failing start ends the runner.
RunnerStartBulletin ==
    /\ rpc = "bulletin"
    /\ \E spawnOk \in BOOLEAN :
        IF spawnOk
        THEN /\ bulletin_proc' = "running"
             /\ RunnerGoto("wait_bulletin")
        ELSE /\ UNCHANGED bulletin_proc
             /\ RunnerExitWith(1)
    /\ UNCHANGED <<dirVars, now, rotVars, syncVars, mainVars, args, venv_exists,
                   deps_installed, venv_pip, requirements_exists, runner_config,
                   fetcher_proc>>

\* The bulletin.py child ends.
BulletinEnds ==
    /\ bulletin_proc = "running"
    /\ bulletin_proc' \in ExitStates
    /\ UNCHANGED <<dirVars, now, rotVars, syncVars, mainVars, rpc, args, venv_exists,
                   deps_installed, venv_pip, requirements_exists, runner_config,
                   fetcher_proc, runner_exit>>

\* subprocess.run returns in run_bulletin_board (check=True): a non-zero
\* return code raises CalledProcessError, which run() turns into exit code 1.
RunnerBulletinDone ==
    /\ rpc = "wait_bulletin"
    /\ ChildEnded(bulletin_proc)
    /\ RunnerExitWith(IF bulletin_proc = "exit0" THEN 0 ELSE 1)
    /\ UNCHANGED <<dirVars, now, rotVars, syncVars, mainVars, args, venv_exists,
                   deps_installed, venv_pip, requirements_exists, runner_config,
                   fetcher_proc, bulletin_proc>>

\* Ctrl-C while the fetcher child runs: the child is killed, the
\* KeyboardInterrupt passes run_image_fetcher's except Exception and run()
\* exits with 1.
RunnerInterrupt ==
    /\ rpc = "wait_fetcher" /\ fetcher_proc = "running"
    /\ fetcher_proc' = "killed"
    /\ RunnerExitWith(1)
    /\ UNCHANGED <<dirVars, now, rotVars, syncVars, mainVars, args, venv_exists,
                   deps_installed, venv_pip, requirements_exists, runner_config,
                   bulletin_proc>>

RunnerNext ==
    \/ RunnerMain
    \/ RunnerCheck
    \/ RunnerUpdateSystem
    \/ RunnerSystemDeps
    \/ RunnerPythonDeps
    \/ RunnerVenv
    \/ RunnerConfig
    \/ RunnerStartFetcher
    \/ FetcherEnds
    \/ RunnerFetcherDone
    \/ RunnerStartBulletin
    \/ BulletinEnds
    \/ RunnerBulletinDone
    \/ RunnerInterrupt

RunnerSpec == RunnerInit /\ [][RunnerNext]_vars

\* ------------------------------------------------------------- claims

\* C1: in every state of the loop, reached after a successful initial scan,
\* 0 <= current_image_index < len(image_list).
C1_IndexInRange ==
    pc \in {"poll", "events", "timer"}
        => (0 <= current_image_index /\ current_image_index < Len(image_list))

\* C2: after a successful initial scan the loop is left only by a quit signal
\* or an escape/quit key, never by an error.
C2_LoopLeftOnlyByQuit ==
    pc = "exited" => outcome \in {"no_images", "quit"}

\* handle_events handles event e of the batch.
HandlesKey(e) ==
    pc = "events" /\ pending > 0 /\ pending' = pending - 1 /\ event' = e

\* C3: handling the rescan key replaces the image list with the result of
\* a fresh scan and leaves the current index at 0.
C3_RescanResetsIndex ==
    [][HandlesKey("K_r")
        => (current_image_index' = 0 /\ image_list' \in Orderings(Matching))]_vars

\* An advance by d on a non-empty list: the index moves by d modulo the
\* length, the new entry is rendered (if it loads), and the countdown restarts.
AdvancedBy(d) ==
    /\ current_image_index' = (current_image_index + d) % Len(image_list)
    /\ frame' \in {frame, image_list[current_image_index' + 1]}
    /\ last_update_time' = now

\* C4: every advance on a non-empty list, by space/right (+1), by left (-1)
\* or by the timer (+1), moves the index modulo the length, renders the new
\* entry and resets the time of the last advance.
C4_EveryAdvanceRestartsCountdown ==
    [][image_list # <<>> =>
        /\ (HandlesKey("K_LEFT") => AdvancedBy(-1))
        /\ (HandlesKey("K_SPACE") \/ HandlesKey("K_RIGHT") => AdvancedBy(1))
        /\ (pc = "timer" /\ pc' # "timer" /\ now - last_update_time >= DisplayDuration
              => AdvancedBy(1))]_vars

\* C5: when the initial scan yields no image, the loop is never entered, no
\* image is displayed and the process ends with a non-zero exit code.
C5_EmptyScanAbortsNonZero ==
    outcome = "no_images" => (pc = "exited" /\ frame = "blank" /\ exit_code > 0)

\* C6 as claimed: a non-forced sync() returns True without listing only when
\* a pass that returned True started less than an interval ago.
C6_SkippedOnlyAfterTruePass ==
    (last.op = "sync" /\ last.how = "skipped")
        => (~last.force /\ last.ret /\ okAt # Never /\ last.at - okAt < SyncInterval)

\* C6 as amended: a non-forced sync() returns True without listing only when
\* a pass that got a non-empty listing started less than an interval ago,
\* whether or not that pass downloaded anything; a call that got an empty
\* listing never makes a later call be skipped.
C6_SkippedOnlyAfterListedPass ==
    (last.op = "sync" /\ last.how = "skipped")
        => (~last.force /\ last.ret /\ listedAt # Never
              /\ last.at - listedAt < SyncInterval)

\* A skipped call that no pass returning True accounts for.
C6_Witness ==
    last.op = "sync" /\ last.how = "skipped" /\ okAt = Never /\ listedAt # Never

\* The calls that list the remote folder.
Listed(how) == how \in {"empty", "list_error", "pass"}

\* C7 as claimed: of two consecutive sync(force=False) calls of an
\* authenticated synchronizer, less than an interval apart, the second is a
\* no-op returning True and at most one lists the folder.
C7_SecondCallIsNoOp ==
    (service /\ last.op = "sync" /\ ~last.force /\ last.prev # "other")
        => (last.how = "skipped" /\ last.ret /\ ~(Listed(last.prev) /\ Listed(last.how)))

\* C7 as amended: when the first of the two calls ran a pass (its listing was
\* not empty), the second is a no-op returning True and does not list.
C7_SecondCallAfterPassIsNoOp ==
    (service /\ last.op = "sync" /\ ~last.force /\ last.prev = "pass")
        => (last.how = "skipped" /\ last.ret /\ ~Listed(last.how))

C7_Witness ==
    service /\ last.op = "sync" /\ ~last.force /\ last.prev = "pass"
        /\ last.how = "skipped"

\* C8: with authentication failed, no operation reports success and none
\* creates, changes or deletes a local file.
C8_UnauthenticatedIsNoOp ==
    [][(~service /\ last' # last) => (files' = files /\ ~last'.ret)]_vars

\* C9: sync(force=True) with an empty listing, also after a transport
\* failure, returns False and leaves the local directory and last_sync as
\* they were.
C9_EmptyListingChangesNothing ==
    [][(last' # last /\ last'.op \in {"sync", "run"} /\ last'.force
            /\ last'.how \in {"empty", "list_error"})
        => (~last'.ret /\ files' = files /\ last_sync' = last_sync)]_vars

C9_Witness ==
    /\ last.op = "sync" /\ last.force /\ last.how = "list_error"
    /\ files["a.jpg"] # Absent /\ files["notes.txt"] # Absent

\* The names with a supported extension, in any case of letters.
HasSupportedExtension(n) == n \in {"a.jpg", "b.PNG", "c.jpg", "album.jpg"}

\* C10: cleanup_local_files deletes exactly the plain local files that have
\* a supported extension and are not named in the listing, but for those
\* whose deletion fails; every other entry stays as it is.
C10_PruneDeletesExactlyUnlisted ==
    [][(last' # last /\ last'.op = "cleanup")
        => \A n \in Names :
             files'[n] = IF /\ files[n].kind = "file"
                            /\ HasSupportedExtension(n)
                            /\ n \notin last'.names
                            /\ n \notin last'.failed
                         THEN Absent
                         ELSE files[n]]_vars

\* A clean-up that kept the listed file and the text file, failed to delete
\* c.jpg and went on to delete b.PNG.
C10_Witness ==
    /\ last.op = "cleanup" /\ last.names = {"a.jpg"}
    /\ last.failed = {"c.jpg"} /\ last.removed = {"b.PNG"}
    /\ files["a.jpg"] # Absent /\ files["notes.txt"] # Absent
    /\ files["c.jpg"] # Absent /\ files["album.jpg"] # Absent

\* The name a download_file call was made for.
DownloadedName == CHOOSE n \in last'.names : TRUE

\* C11: download_file on an authenticated synchronizer takes the skip path
\* (True, nothing fetched, file untouched) exactly when a local file of the
\* record's name exists with a modification time >= the record's; in every
\* other case it attempts the fetch.
C11_SkipsExactlyWhenCurrent ==
    [][(last' # last /\ last'.op = "download" /\ service) =>
        LET f == files[DownloadedName] IN
        IF f # Absent /\ f.mtime >= last'.mtime
        THEN last'.ret /\ last'.how = "not_fetched" /\ files' = files
        ELSE ~(last'.ret /\ last'.how = "not_fetched")]_vars

\* The step of sync()'s for loop that calls download_file.
DownloadStep == spc = "download" /\ di' = di + 1

\* C12: a pass with a non-empty listing calls download_file for every
\* listed record, without pruning or stamping meanwhile; then it prunes
\* (only unlisted files go), sets last_sync to the time the pass started and
\* returns True iff at least one download_file call returned True.
C12_PassDownloadsPrunesStamps ==
    [][/\ DownloadStep =>
            /\ Len(results') = Len(results) + 1
            /\ last_sync' = last_sync
            /\ \A n \in Names \ {drive_files[di].name} : files'[n] = files[n]
       /\ (spc = "cleanup" /\ spc' = "idle") =>
            /\ Len(results) = Len(drive_files)
            /\ \A n \in Names :
                 \/ files'[n] = files[n]
                 \/ files'[n] = Absent /\ n \notin NamesOf(drive_files)
            /\ last_sync' = current_time
            /\ last'.ret = (\E k \in 1..Len(results) : results[k])]_vars

\* A pass that returned True although one of its downloads failed.
C12_Witness ==
    /\ last.op = "sync" /\ last.how = "pass" /\ last.ret
    /\ files["a.jpg"].data = "remote" /\ files["b.PNG"].data = "partial"
    /\ last_sync = last.at

\* C13: the local file is replaced atomically: no file is ever left empty or
\* partially written, also when the fetch or the write fails.
C13_NeverPartiallyWritten ==
    \A n \in Names : files[n].data # "partial"

\* A step of the loop that calls display_current_image on a non-empty list.
DisplayStep ==
    \/ pc = "start" /\ pc' = "poll"
    \/ /\ image_list # <<>>
       /\ \/ HandlesKey("K_SPACE") \/ HandlesKey("K_RIGHT") \/ HandlesKey("K_LEFT")
          \/ pc = "timer" /\ pc' # "timer" /\ now - last_update_time >= DisplayDuration

\* C16: after display_current_image the visible frame is the current entry,
\* or the background alone when the entry could not be loaded.
C16_FailedLoadShowsBackground ==
    [][DisplayStep =>
        frame' \in {"blank", image_list'[current_image_index' + 1]}]_vars

\* The indexes reached by k advance_image steps from index i, and by k
\* K_LEFT steps, on a list of n entries.
RECURSIVE ForwardWalk(_, _, _)
ForwardWalk(i, n, k) ==
    IF k = 0 THEN <<>>
    ELSE <<NextIndex(i, n)>> \o ForwardWalk(NextIndex(i, n), n, k - 1)

RECURSIVE BackwardWalk(_, _, _)
BackwardWalk(i, n, k) ==
    IF k = 0 THEN <<>>
    ELSE <<PreviousIndex(i, n)>> \o BackwardWalk(PreviousIndex(i, n), n, k - 1)

\* A walk of n steps that visits every index once and ends at index i.
IsCycle(w, i, n) ==
    /\ Len(w) = n
    /\ w[n] = i
    /\ {w[k] : k \in 1..n} = 0..(n - 1)

\* C17: from any index of a non-empty list of n entries, n advances return
\* to it, and so do n left-key steps, visiting every index once.
C17_AdvanceIsCyclic ==
    (image_list # <<>> /\ current_image_index \in 0..(Len(image_list) - 1)) =>
        LET n == Len(image_list) IN
        /\ IsCycle(ForwardWalk(current_image_index, n, n), current_image_index, n)
        /\ IsCycle(BackwardWalk(current_image_index, n, n), current_image_index, n)

\* A left-key step has wrapped from the first entry to the last of three.
C17_Witness ==
    /\ event = "K_LEFT" /\ Len(image_list) = 3 /\ current_image_index = 2
    /\ frame = image_list[3]

\* C20: once handle_events has returned False the loop changes nothing more:
\* the index, the time of the last advance and the frame stay as they are.
C20_FrozenAfterQuit ==
    [][(pc = "timer" /\ ~running)
        => UNCHANGED <<current_image_index, last_update_time, frame>>]_vars

\* Entry n of the directory is the current entry of the image list.
IsCurrent(n) ==
    /\ pc # "start"
    /\ current_image_index < Len(image_list)
    /\ image_list[current_image_index + 1] = n

\* C18 as claimed: while nobody quits, every image becomes the current entry
\* again and again.
C18_EveryEntryRecurs ==
    \A n \in {"a.jpg", "b.PNG", "c.jpg"} : []<>IsCurrent(n)

\* C18 as amended: it does so once the user stops pressing the left key and
\* the rescan key; space and right key presses and failing loads do not
\* prevent it.
C18_EveryEntryRecursWithoutLeftAndRescan ==
    <>[](event \notin {"K_LEFT", "K_r"})
        => \A n \in {"a.jpg", "b.PNG", "c.jpg"} : []<>IsCurrent(n)

\* The timer has brought the last of the three entries up, at the end of the
\* clock's range, while the first image is still on the screen.
C18_Witness ==
    /\ pc = "poll" /\ now = MaxTime /\ last_update_time = now
    /\ Len(image_list) = 3 /\ current_image_index = 2
    /\ frame = image_list[1]

\* C15: the utility exits with 0 exactly when sync.run() returned True, which
\* it does only after a sync that returned True; it exits with 1 on every
\* configuration failure, without running a sync, and after every run that
\* failed or was interrupted.
C15_ExitCodeTellsSuccess ==
    mpc = "exited" =>
        /\ main_exit \in {0, 1}
        /\ (main_exit = 0) = (run_ret = "true")
        /\ run_ret = "true" => (last.op = "run" /\ last.how = "pass" /\ last.ret)
        /\ (config_file # "ok" \/ ~folder_id \/ service_account_file # "present")
              => (main_exit = 1 /\ last = NoLog)
        /\ (~service \/ (last.op = "run" /\ ~last.ret)) => main_exit = 1

\* The utility has exited with 0 after a run that downloaded a.jpg.
C15_Witness ==
    /\ mpc = "exited" /\ main_exit = 0
    /\ last.op = "run" /\ files["a.jpg"].data = "remote"

C19_VenvBeforePythonDeps ==
    rpc = "python_deps" => (venv_exists /\ venv_pip)

=============================================================================
